---- MODULE Spec2Model ----
(***************************************************************************)
(* Orbital chemistry toolkit: the molecular graph (chem/core), the SMILES  *)
(* parser and writer (chem/io/smiles.py), the SDF writer and parser        *)
(* (chem/io/sdf.py), the ring / aromaticity classifier and the valence     *)
(* check (chem/validators/core.py).                                        *)
(*                                                                         *)
(* Conventions.  A Python str is a sequence of one-character strings.      *)
(* Atom indices are 0-based as in the source; the atom with index i is     *)
(* atoms[i + 1].  A bond order is kept in half-units (order * 2), so       *)
(* 1.0, 1.5, 2.0, 3.0 are 2, 3, 4, 6.  An atom's metadata["aromatic"] is   *)
(* kept by its truth value (absent and falsy are FALSE).                   *)
(***************************************************************************)
EXTENDS Integers, Sequences, FiniteSets, TLC

VARIABLES scan, molecule, phase, exported, ring_results, atoms_after, ring_order,
          sdf, other_call, valence

vars == <<scan, molecule, phase, exported, ring_results, atoms_after, ring_order,
          sdf, other_call, valence>>

----------------------------------------------------------------------------
(* Bounds of the model.                                                    *)

\* longest input string drawn over Alphabet
MaxLen == 4
\* largest aromatic ring string c1c...c1 offered to the parser
MaxRingStr == 9
\* atoms and bonds of a directly constructed graph
MaxAtoms == 3
MaxBonds == 3
\* largest ring built the way the tests build one, atom i bonded to atom i + 1
MaxRing == 10
\* largest ring built with its atoms numbered in every possible order
MaxPermRing == 4
\* largest ring built with bonds of different kinds; a larger ring has one
\* kind of bond throughout, as the rings of the tests do
MaxMixedRing == 6
\* how often the classifier is run on one graph
MaxRuns == 2
\* atoms and bonds of a graph written as SDF text
MaxSdfAtoms == 2
MaxSdfBonds == 1
\* largest atom index of a bond or of the argument in a Bond.other call
MaxIndex == 5
\* most atoms bonded to the first atom of a graph given to validate_valence
MaxNeighbors == 5

----------------------------------------------------------------------------
(* Characters.                                                             *)

Uppers == <<"C", "N", "O", "L">>
Lowers == <<"c", "n", "o", "l">>
Digits == <<"0", "1", "2", "3", "4", "5", "6", "7", "8", "9">>

Range(s) == {s[i] : i \in DOMAIN s}

\* str.islower / str.isalpha / str.isdigit on one character
islower(ch) == ch \in Range(Lowers)
isalpha(ch) == ch \in Range(Uppers) \cup Range(Lowers)
isdigit(ch) == ch \in Range(Digits)

\* str.upper / str.lower on one character
upper(ch) == IF islower(ch) THEN Uppers[CHOOSE i \in DOMAIN Lowers : Lowers[i] = ch] ELSE ch
lower(ch) == IF ch \in Range(Uppers) THEN Lowers[CHOOSE i \in DOMAIN Uppers : Uppers[i] = ch] ELSE ch

\* str.lower on a string
lower_str(s) == [i \in DOMAIN s |-> lower(s[i])]

\* the characters the input strings are drawn from; "$" stands for any
\* character that is no bond symbol, parenthesis, digit or letter
Alphabet == {"C", "c", "-", "=", "#", ":", "(", ")", "1", "2", "$"}

\* all strings over S of length at most n
StringsUpTo(S, n) == UNION {[1..k -> S] : k \in 0..n}

\* "c1" + "c" * (n - 2) + "c1": the aromatic ring string of n atoms
RingString(n) == <<"c", "1">> \o [i \in 1..(n - 2) |-> "c"] \o <<"c", "1">>

----------------------------------------------------------------------------
(* The molecular graph.                                                    *)

\* prev_atom is None
None == -1

\* Atom(symbol, charge, metadata)
Atom(symbol, aromatic) == [symbol |-> symbol, charge |-> 0, aromatic |-> aromatic]

\* Bond(atoms = (a, b), order, aromatic)
Bond(a, b, order, aromatic) == [a |-> a, b |-> b, order |-> order, aromatic |-> aromatic]

\* Molecule()
EmptyMolecule == [atoms |-> <<>>, bonds |-> <<>>]

\* Molecule.add_atom, Molecule.add_bond
add_atom(m, atom) == [m EXCEPT !.atoms = Append(@, atom)]
add_bond(m, bond) == [m EXCEPT !.bonds = Append(@, bond)]

\* Molecule.get_bond: the position (1-based) of the first bond whose
\* endpoint set is {a, b}, or 0 for None
get_bond(m, a, b) ==
    LET hits == {k \in DOMAIN m.bonds : {m.bonds[k].a, m.bonds[k].b} = {a, b}}
    IN  IF hits = {} THEN 0 ELSE CHOOSE k \in hits : \A j \in hits : k <= j

----------------------------------------------------------------------------
(* parse_smiles.                                                           *)

\* _SYMBOL_TO_ORDER, in half-units
SYMBOL_TO_ORDER == [ch \in {"-", "=", "#", ":"} |->
    CASE ch = "-" -> 2 [] ch = "=" -> 4 [] ch = "#" -> 6 [] ch = ":" -> 3]

\* the locals of parse_smiles before the first iteration
ScanInit(s) ==
    [smiles |-> s, index |-> 0, molecule |-> EmptyMolecule, atom_stack |-> <<>>,
     ring_closures |-> {}, prev_atom |-> None, bond_order |-> 2,
     aromatic_bond |-> FALSE, status |-> "scanning"]

\* the character at smiles[index]
CurChar(p) == p.smiles[p.index + 1]

AtEnd(p) == p.index >= Len(p.smiles)

\* metadata.get("aromatic") of the atom with this index
atom_aromatic(m, i) == m.atoms[i + 1].aromatic

\* if char in "-=#:"
ScanBondSymbol(p) ==
    [p EXCEPT !.bond_order = SYMBOL_TO_ORDER[CurChar(p)],
              !.aromatic_bond = (CurChar(p) = ":"),
              !.index = @ + 1]

\* if char == "("
ScanBranchOpen(p) ==
    IF p.prev_atom = None
    THEN [p EXCEPT !.status = "BranchWithoutPreviousAtom"]
    ELSE [p EXCEPT !.atom_stack = Append(@, p.prev_atom), !.index = @ + 1]

\* popping the stack without restoring prev_atom
ScanBranchClose_NoRestore(p) ==
    IF p.atom_stack = <<>>
    THEN [p EXCEPT !.status = "UnbalancedParentheses"]
    ELSE [p EXCEPT !.atom_stack = SubSeq(@, 1, Len(@) - 1), !.index = @ + 1]

\* popping the stack and leaving no previous atom
ScanBranchClose_ClearPrev(p) ==
    IF p.atom_stack = <<>>
    THEN [p EXCEPT !.status = "UnbalancedParentheses"]
    ELSE [p EXCEPT !.prev_atom = None,
                   !.atom_stack = SubSeq(@, 1, Len(@) - 1),
                   !.index = @ + 1]

\* if char == ")"
ScanBranchClose(p) ==
    IF p.atom_stack = <<>>
    THEN [p EXCEPT !.status = "UnbalancedParentheses"]
    ELSE [p EXCEPT !.prev_atom = p.atom_stack[Len(p.atom_stack)],
                   !.atom_stack = SubSeq(@, 1, Len(@) - 1),
                   !.index = @ + 1]

\* ring_closures is a dict: a set of entries with distinct digit keys
DictKeys(d) == {e.digit : e \in d}
DictGet(d, key) == CHOOSE e \in d : e.digit = key
DictPop(d, key) == {e \in d : e.digit # key}

\* if char.isdigit()
ScanRingDigit(p) ==
    IF p.prev_atom = None
    THEN [p EXCEPT !.status = "RingDigitWithoutPreviousAtom"]
    ELSE LET digit == CurChar(p)
             m == p.molecule
         IN  IF digit \notin DictKeys(p.ring_closures)
             THEN LET aromatic_prev == IF m.atoms # <<>> THEN atom_aromatic(m, p.prev_atom) ELSE FALSE
                  IN  [p EXCEPT !.ring_closures =
                                    @ \cup {[digit |-> digit, atom |-> p.prev_atom,
                                               order |-> p.bond_order,
                                               aromatic |-> (p.aromatic_bond \/ aromatic_prev)]},
                                !.index = @ + 1, !.bond_order = 2, !.aromatic_bond = FALSE]
             ELSE LET closure == DictGet(p.ring_closures, digit)
                  IN  [p EXCEPT !.ring_closures = DictPop(@, digit),
                                !.molecule = add_bond(m,
                                    Bond(closure.atom, p.prev_atom, closure.order,
                                         closure.aromatic \/ p.aromatic_bond
                                            \/ atom_aromatic(m, p.prev_atom))),
                                !.index = @ + 1, !.bond_order = 2, !.aromatic_bond = FALSE]

\* _parse_element on an alphabetic character: the symbol, the index after it
\* and the aromatic flag (its raise on any other character is in ScanAtom)
parse_element(smiles, index) ==
    LET char == smiles[index + 1]
        aromatic == islower(char)
        symbol == IF aromatic THEN upper(char) ELSE char
        two == (index + 1 < Len(smiles)) /\ islower(smiles[index + 2]) /\ ~aromatic
    IN  [symbol |-> IF two THEN <<symbol, smiles[index + 2]>> ELSE <<symbol>>,
         index |-> IF two THEN index + 2 ELSE index + 1,
         aromatic |-> aromatic]

\* the atom branch of the loop: _parse_element (raising on a character that
\* is not alphabetic), add_atom, the bond to prev_atom
ScanAtom(p) ==
    IF ~isalpha(CurChar(p))
    THEN [p EXCEPT !.status = "UnexpectedToken"]
    ELSE LET e == parse_element(p.smiles, p.index)
             atom_index == Len(p.molecule.atoms)
             m1 == add_atom(p.molecule, Atom(e.symbol, e.aromatic))
             order == IF ~e.aromatic THEN p.bond_order
                      ELSE IF p.bond_order = 2 THEN 3 ELSE p.bond_order
             m2 == IF p.prev_atom # None
                   THEN add_bond(m1, Bond(p.prev_atom, atom_index, order,
                                          p.aromatic_bond \/ e.aromatic))
                   ELSE m1
         IN  [p EXCEPT !.molecule = m2, !.index = e.index, !.prev_atom = atom_index,
                       !.bond_order = 2, !.aromatic_bond = FALSE]

\* returning without the check for open ring labels
ScanEnd_NoCheck(p) == [p EXCEPT !.status = "returned"]

\* after the loop: if ring_closures: raise; return molecule
ScanEnd(p) ==
    IF p.ring_closures # {}
    THEN [p EXCEPT !.status = "UnclosedRings"]
    ELSE [p EXCEPT !.status = "returned"]

\* one iteration of the while loop, or the code after it
ScanStep(p) ==
    IF AtEnd(p) THEN ScanEnd(p)
    ELSE LET char == CurChar(p)
         IN  IF char \in {"-", "=", "#", ":"} THEN ScanBondSymbol(p)
             ELSE IF char = "(" THEN ScanBranchOpen(p)
             ELSE IF char = ")" THEN ScanBranchClose(p)
             ELSE IF isdigit(char) THEN ScanRingDigit(p)
             ELSE ScanAtom(p)

RECURSIVE ScanRun(_)
ScanRun(p) == IF p.status # "scanning" THEN p ELSE ScanRun(ScanStep(p))

\* parse_smiles(smiles): the final locals; status "returned" and the molecule,
\* or the error raised
parse_smiles(s) == ScanRun(ScanInit(s))

----------------------------------------------------------------------------
(* to_smiles.                                                              *)

\* _BOND_SYMBOLS.get(bond.order, ""), the order in half-units
BOND_SYMBOLS(order) ==
    CASE order = 2 -> <<>>
      [] order = 4 -> <<"=">>
      [] order = 6 -> <<"#">>
      [] order = 3 -> <<>>
      [] OTHER -> <<>>

\* str(n) for n >= 0
RECURSIVE str(_)
str(n) == IF n < 10 THEN <<Digits[n + 1]>> ELSE str(n \div 10) \o <<Digits[(n % 10) + 1]>>

\* _atom_to_smiles
atom_to_smiles(atom) == IF atom.aromatic THEN lower_str(atom.symbol) ELSE atom.symbol

\* the entries bond number k (1-based position in molecule.bonds) appends to
\* the adjacency list of atom i
AdjEntries(m, i, k) ==
    LET bond == m.bonds[k]
    IN  (IF bond.a = i THEN <<[neighbor |-> bond.b, bond_id |-> k]>> ELSE <<>>)
        \o (IF bond.b = i THEN <<[neighbor |-> bond.a, bond_id |-> k]>> ELSE <<>>)

\* the list that the loop over molecule.bonds builds for atom i: (neighbor,
\* bond) pairs in bond-list order, a bond named by its position
RECURSIVE AdjUpTo(_, _, _)
AdjUpTo(m, i, k) == IF k = 0 THEN <<>> ELSE AdjUpTo(m, i, k - 1) \o AdjEntries(m, i, k)

\* adjacency of to_smiles: one list per atom index; the position of a bond
\* is what bond_index_lookup gives for bond objects that are distinct
adjacency(m) == [i \in 0..(Len(m.atoms) - 1) |-> AdjUpTo(m, i, Len(m.bonds))]

\* tuple(sorted((a, b)))
SortedPair(a, b) == IF a <= b THEN <<a, b>> ELSE <<b, a>>

\* "".join(parts)
RECURSIVE join(_)
join(parts) == IF parts = <<>> THEN <<>> ELSE Head(parts) \o join(Tail(parts))

\* a tail of traverse that writes the later branches, in parentheses,
\* before the first one
JoinPieces_LaterBranchesFirst(pieces, branches) ==
    IF branches = <<>> THEN join(pieces)
    ELSE join(pieces)
         \o join([j \in 1..(Len(branches) - 1) |-> <<"(">> \o branches[j + 1] \o <<")">>])
         \o branches[1]

\* the tail of traverse: pieces plus the first branch bare and every later
\* branch in parentheses
JoinPieces(pieces, branches) ==
    IF branches = <<>> THEN join(pieces)
    ELSE join(pieces) \o branches[1]
         \o join([j \in 1..(Len(branches) - 1) |-> <<"(">> \o branches[j + 1] \o <<")">>])

\* traverse(atom_index, parent) with the closure variables visited_atoms,
\* visited_bonds and ring_ids threaded through as t; TraverseLoop is the for
\* loop from neighbour number k on.  Both give [text, t].
RECURSIVE traverse(_, _, _, _, _)
RECURSIVE TraverseLoop(_, _, _, _, _, _, _, _)
TraverseLoop(m, adj, atom_index, parent, k, t, pieces, branches) ==
    LET neighbors == adj[atom_index]
    IN  IF k > Len(neighbors)
        THEN [text |-> JoinPieces(pieces, branches), t |-> t]
        ELSE LET neighbor == neighbors[k].neighbor
                 bond_id == neighbors[k].bond_id
                 bond == m.bonds[bond_id]
                 bond_symbol == IF bond.aromatic /\ bond.order = 2 THEN <<>>
                                ELSE BOND_SYMBOLS(bond.order)
                 key == SortedPair(atom_index, neighbor)
             IN  IF bond_id \in t.visited_bonds /\ parent # None /\ neighbor = parent
                 THEN TraverseLoop(m, adj, atom_index, parent, k + 1, t, pieces, branches)
                 ELSE IF neighbor \in t.visited_atoms
                 THEN IF key \in t.ring_ids
                      THEN TraverseLoop(m, adj, atom_index, parent, k + 1, t, pieces, branches)
                      ELSE LET label == Cardinality(t.ring_ids) + 1
                           IN  TraverseLoop(m, adj, atom_index, parent, k + 1,
                                   [t EXCEPT !.ring_ids = @ \cup {key},
                                             !.visited_bonds = @ \cup {bond_id}],
                                   Append(pieces, bond_symbol \o str(label)), branches)
                 ELSE LET sub == traverse(m, adj, neighbor, atom_index,
                                          [t EXCEPT !.visited_bonds = @ \cup {bond_id}])
                      IN  TraverseLoop(m, adj, atom_index, parent, k + 1, sub.t, pieces,
                                       Append(branches, bond_symbol \o sub.text))

traverse(m, adj, atom_index, parent, t) ==
    TraverseLoop(m, adj, atom_index, parent, 1,
                 [t EXCEPT !.visited_atoms = @ \cup {atom_index}],
                 <<atom_to_smiles(m.atoms[atom_index + 1])>>, <<>>)

\* to_smiles(molecule)
to_smiles(m) ==
    IF m.atoms = <<>> THEN <<>>
    ELSE traverse(m, adjacency(m), 0, None,
                  [visited_atoms |-> {}, visited_bonds |-> {}, ring_ids |-> {}]).text

----------------------------------------------------------------------------
(* _find_cycles and detect_aromatic_rings.                                 *)

\* a search bound one short of the default
max_length_short == 8 - 1

\* the default of the parameter max_length of _find_cycles
max_length == 8

\* sorted(seq) for a sequence of integers
RECURSIVE Insert(_, _)
Insert(sorted_seq, x) ==
    IF sorted_seq = <<>> THEN <<x>>
    ELSE IF x <= Head(sorted_seq) THEN <<x>> \o sorted_seq
    ELSE <<Head(sorted_seq)>> \o Insert(Tail(sorted_seq), x)

RECURSIVE sorted(_)
sorted(seq) == IF seq = <<>> THEN <<>> ELSE Insert(sorted(Tail(seq)), Head(seq))

\* adjacency of _find_cycles: a defaultdict, so every index has a list
cycle_adjacency(m) ==
    LET keys == (0..(Len(m.atoms) - 1))
                \cup {m.bonds[k].a : k \in DOMAIN m.bonds}
                \cup {m.bonds[k].b : k \in DOMAIN m.bonds}
    IN  [i \in keys |-> AdjUpTo(m, i, Len(m.bonds))]

\* dfs(start, current, path, used_bonds): the canonical tuples this call adds
\* to the set cycles
RECURSIVE dfs(_, _, _, _, _)
dfs(adjacency_of, start, current, path, used_bonds) ==
    LET adj == adjacency_of[current]
    IN  UNION { LET neighbor == adj[k].neighbor
                    bond_idx == adj[k].bond_id
                IN  IF bond_idx \in used_bonds THEN {}
                    ELSE IF neighbor = start /\ Len(path) >= 3
                    THEN {sorted(path \o <<start>>)}
                    ELSE IF neighbor \in Range(path) THEN {}
                    ELSE IF Len(path) >= max_length THEN {}
                    ELSE dfs(adjacency_of, start, neighbor, Append(path, neighbor),
                             used_bonds \cup {bond_idx})
              : k \in DOMAIN adj }

\* the set cycles of _find_cycles after the loop over all start atoms
canonical_cycles(m) ==
    UNION { dfs(adjacency_of, atom_index, atom_index, <<atom_index>>, {})
            : atom_index \in 0..(Len(m.atoms) - 1), adjacency_of \in {cycle_adjacency(m)} }

\* lexicographic order on integer sequences, shorter first: the order in
\* which the model lists a set of tuples (Python iterates a set in hash
\* order; no operation here depends on that order)
RECURSIVE LexLess(_, _)
LexLess(s, t) ==
    IF Len(s) # Len(t) THEN Len(s) < Len(t)
    ELSE IF s = <<>> THEN FALSE
    ELSE IF Head(s) # Head(t) THEN Head(s) < Head(t)
    ELSE LexLess(Tail(s), Tail(t))

RECURSIVE SetToList(_)
SetToList(S) ==
    IF S = {} THEN <<>>
    ELSE LET least == CHOOSE x \in S : \A y \in S \ {x} : LexLess(x, y)
         IN  <<least>> \o SetToList(S \ {least})

\* cycle[:-1]
ButLast(cycle) == SubSeq(cycle, 1, Len(cycle) - 1)

\* _find_cycles(molecule): [list(cycle[:-1]) for cycle in cycles]
find_cycles(m) ==
    LET listed == SetToList(canonical_cycles(m))
    IN  [j \in DOMAIN listed |-> ButLast(listed[j])]

\* the test of one bond in detect_aromatic_rings
bond_passes(bond) == bond.aromatic \/ bond.order = 3 \/ bond.order = 4

\* a test that also wants an atom of the cycle not flagged yet
is_aromatic_new_only(m, cycle) ==
    /\ \A i \in 0..(Len(cycle) - 1) :
          LET a == cycle[i + 1]
              b == cycle[((i + 1) % Len(cycle)) + 1]
              k == get_bond(m, a, b)
          IN  k # 0 /\ bond_passes(m.bonds[k])
    /\ \E i \in DOMAIN cycle : ~atom_aromatic(m, cycle[i])

\* the inner loop of detect_aromatic_rings: is_aromatic for one cycle
is_aromatic(m, cycle) ==
    \A i \in 0..(Len(cycle) - 1) :
        LET a == cycle[i + 1]
            b == cycle[((i + 1) % Len(cycle)) + 1]
            k == get_bond(m, a, b)
        IN  k # 0 /\ bond_passes(m.bonds[k])

\* a classifier that flags the atoms of every cycle found, aromatic or not
detect_flagging_every_cycle(m) ==
    LET cycles == find_cycles(m)
        aromatic_cycles == SelectSeq(cycles, LAMBDA c : is_aromatic(m, c))
        flagged == UNION {Range(cycles[j]) : j \in DOMAIN cycles}
    IN  [rings |-> aromatic_cycles,
         molecule |-> [m EXCEPT !.atoms = [i \in DOMAIN m.atoms |->
                          IF (i - 1) \in flagged /\ ~m.atoms[i].aromatic
                          THEN [m.atoms[i] EXCEPT !.aromatic = TRUE]
                          ELSE m.atoms[i]]]]

\* detect_aromatic_rings(molecule): the list returned and the molecule as
\* it leaves it
detect_aromatic_rings(m) ==
    LET cycles == find_cycles(m)
        aromatic_cycles == SelectSeq(cycles, LAMBDA c : is_aromatic(m, c))
        flagged == UNION {Range(aromatic_cycles[j]) : j \in DOMAIN aromatic_cycles}
    IN  [rings |-> aromatic_cycles,
         molecule |-> [m EXCEPT !.atoms = [i \in DOMAIN m.atoms |->
                          IF (i - 1) \in flagged /\ ~m.atoms[i].aromatic
                          THEN [m.atoms[i] EXCEPT !.aromatic = TRUE]
                          ELSE m.atoms[i]]]]

----------------------------------------------------------------------------
(* to_sdf and parse_sdf (chem/io/sdf.py).  The text is a sequence of       *)
(* characters; a line break is "\n".  Atom coordinates are at their        *)
(* default (0.0, 0.0, 0.0).                                                *)

\* Atom(symbol=symbol, charge=charge)
ChargedAtom(symbol, charge) == [Atom(symbol, FALSE) EXCEPT !.charge = charge]

Min(a, b) == IF a < b THEN a ELSE b

\* s[a:b] for 0 <= a <= b
slice(s, a, b) == SubSeq(s, a + 1, Min(b, Len(s)))

\* str.strip(): leading and trailing whitespace removed
Whitespace == {" ", "\n"}

RECURSIVE lstrip(_)
lstrip(s) == IF s # <<>> /\ Head(s) \in Whitespace THEN lstrip(Tail(s)) ELSE s

RECURSIVE rstrip(_)
rstrip(s) ==
    IF s # <<>> /\ s[Len(s)] \in Whitespace THEN rstrip(SubSeq(s, 1, Len(s) - 1)) ELSE s

strip(s) == rstrip(lstrip(s))

\* str.split(sep): the pieces between the occurrences of sep, left to right
RECURSIVE split(_, _)
split(s, sep) ==
    LET hits == {i \in 1..(Len(s) - Len(sep) + 1) : SubSeq(s, i, i + Len(sep) - 1) = sep}
    IN  IF hits = {} THEN <<s>>
        ELSE LET i == CHOOSE h \in hits : \A g \in hits : h <= g
             IN  <<SubSeq(s, 1, i - 1)>> \o split(SubSeq(s, i + Len(sep), Len(s)), sep)

\* str.splitlines(): no line for the empty string, none after a final "\n"
splitlines(s) ==
    IF s = <<>> THEN <<>>
    ELSE LET parts == split(s, <<"\n">>)
         IN  IF parts[Len(parts)] = <<>> THEN SubSeq(parts, 1, Len(parts) - 1) ELSE parts

\* "\n".join(lines) + "\n"
RECURSIVE join_lines(_)
join_lines(lines) ==
    IF lines = <<>> THEN <<>> ELSE Head(lines) \o <<"\n">> \o join_lines(Tail(lines))

\* the format specs {:>w} and {:<w}: padded with spaces, never cut
rjust(s, w) == [i \in 1..(w - Len(s)) |-> " "] \o s
ljust(s, w) == s \o [i \in 1..(w - Len(s)) |-> " "]

\* the text "  0" written n times
zero_fields(n) == [i \in 1..(3 * n) |-> IF i % 3 = 0 THEN "0" ELSE " "]

\* int(text): the text stripped is a run of digits, else ValueError
int_ok(s) == strip(s) # <<>> /\ \A i \in DOMAIN strip(s) : isdigit(strip(s)[i])

RECURSIVE digits_value(_)
digits_value(t) ==
    IF t = <<>> THEN 0
    ELSE digits_value(SubSeq(t, 1, Len(t) - 1)) * 10
            + (CHOOSE d \in 0..9 : Digits[d + 1] = t[Len(t)])

int(s) == digits_value(strip(s))

\* float(text) succeeds: digits with at most one point, else ValueError
float_ok(s) ==
    LET t == strip(s)
    IN  /\ \E i \in DOMAIN t : isdigit(t[i])
        /\ \A i \in DOMAIN t : isdigit(t[i]) \/ t[i] = "."
        /\ Cardinality({i \in DOMAIN t : t[i] = "."}) <= 1

\* f"{0.0:>10.4f}"
format_coord == rjust(<<"0", ".", "0", "0", "0", "0">>, 10)

\* charge_lookup of to_sdf: charge -> charge code, .get(charge, 0)
charge_code_of(charge) ==
    CASE charge = 3 -> 1 [] charge = 2 -> 2 [] charge = 1 -> 3 [] charge = 0 -> 0
      [] charge = -1 -> 5 [] charge = -2 -> 6 [] charge = -3 -> 7 [] OTHER -> 0

\* charge_lookup of parse_sdf: charge code -> charge, .get(charge_code, 0)
charge_of_code(code) ==
    CASE code = 0 -> 0 [] code = 1 -> 3 [] code = 2 -> 2 [] code = 3 -> 1
      [] code = 4 -> 0 [] code = 5 -> -1 [] code = 6 -> -2 [] code = 7 -> -3 [] OTHER -> 0

\* order_lookup of to_sdf: order (half-units) -> order code, .get(order, 1)
order_code_of(order) ==
    CASE order = 2 -> 1 [] order = 4 -> 2 [] order = 6 -> 3 [] order = 3 -> 4 [] OTHER -> 1

\* the counts line of to_sdf
counts_line(m) ==
    rjust(str(Len(m.atoms)), 3) \o rjust(str(Len(m.bonds)), 3) \o zero_fields(10)

\* the atom line of to_sdf
atom_line_of(atom) ==
    format_coord \o format_coord \o format_coord \o <<" ">> \o ljust(atom.symbol, 3)
        \o <<" ", "0", " ", " ">> \o rjust(str(charge_code_of(atom.charge)), 2)
        \o zero_fields(4)

\* the bond line of to_sdf
bond_line_of(bond) ==
    rjust(str(bond.a + 1), 3) \o rjust(str(bond.b + 1), 3)
        \o rjust(str(order_code_of(bond.order)), 3) \o zero_fields(4)

\* to_sdf(molecule, name)
to_sdf(m, name) ==
    join_lines(<<name,
                 <<"O", "r", "b", "i", "t", "a", "l", " ", "T", "o", "o", "l", "k", "i", "t">>,
                 <<>>,
                 counts_line(m)>>
               \o [i \in DOMAIN m.atoms |-> atom_line_of(m.atoms[i])]
               \o [k \in DOMAIN m.bonds |-> bond_line_of(m.bonds[k])]
               \o << <<"M", " ", " ", "E", "N", "D">>, <<"$", "$", "$", "$">> >>)

\* one atom line of parse_sdf: the atom, or ValueError
parse_atom_line(atom_line) ==
    LET charge_code_str == strip(slice(atom_line, 36, 39))
    IN  IF ~(/\ float_ok(slice(atom_line, 0, 10))
             /\ float_ok(slice(atom_line, 10, 20))
             /\ float_ok(slice(atom_line, 20, 30)))
        THEN [status |-> "ValueError"]
        ELSE IF charge_code_str # <<>> /\ ~int_ok(charge_code_str)
        THEN [status |-> "ValueError"]
        ELSE [status |-> "ok",
              atom |-> ChargedAtom(strip(slice(atom_line, 31, 34)),
                          charge_of_code(IF charge_code_str # <<>>
                                         THEN int(charge_code_str) ELSE 0))]

\* one bond line of parse_sdf: the bond, or ValueError
parse_bond_line(bond_line) ==
    IF ~(/\ int_ok(slice(bond_line, 0, 3))
         /\ int_ok(slice(bond_line, 3, 6))
         /\ int_ok(slice(bond_line, 6, 9)))
    THEN [status |-> "ValueError"]
    ELSE LET order_code == int(slice(bond_line, 6, 9))
             order == CASE order_code = 1 -> 2 [] order_code = 2 -> 4
                        [] order_code = 3 -> 6 [] order_code = 4 -> 3 [] OTHER -> 2
         IN  [status |-> "ok",
              bond |-> Bond(int(slice(bond_line, 0, 3)) - 1, int(slice(bond_line, 3, 6)) - 1,
                            order, order_code = 4)]

\* the body of the loop over the blocks, for a block that is not blank
parse_block(block) ==
    LET lines == splitlines(block)
    IN  IF Len(lines) < 4 THEN [status |-> "ValueError"]
        ELSE LET counts == lines[4]
             IN  IF ~(int_ok(slice(counts, 0, 3)) /\ int_ok(slice(counts, 3, 6)))
                 THEN [status |-> "ValueError"]
                 ELSE LET atom_count == int(slice(counts, 0, 3))
                          bond_count == int(slice(counts, 3, 6))
                          atoms_section == slice(lines, 4, 4 + atom_count)
                          bonds_section == slice(lines, 4 + atom_count,
                                                 4 + atom_count + bond_count)
                          atoms == [i \in DOMAIN atoms_section |->
                                       parse_atom_line(atoms_section[i])]
                          bonds == [k \in DOMAIN bonds_section |->
                                       parse_bond_line(bonds_section[k])]
                      IN  IF \/ \E i \in DOMAIN atoms : atoms[i].status # "ok"
                             \/ \E k \in DOMAIN bonds : bonds[k].status # "ok"
                          THEN [status |-> "ValueError"]
                          ELSE [status |-> "ok",
                                molecule |-> [atoms |-> [i \in DOMAIN atoms |-> atoms[i].atom],
                                              bonds |-> [k \in DOMAIN bonds |-> bonds[k].bond]]]

\* the loop of parse_sdf over the blocks from position k on
RECURSIVE parse_blocks(_, _, _)
parse_blocks(blocks, k, molecules) ==
    IF k > Len(blocks) THEN [status |-> "returned", molecules |-> molecules]
    ELSE LET block == strip(blocks[k])
         IN  IF block = <<>> THEN parse_blocks(blocks, k + 1, molecules)
             ELSE LET r == parse_block(block)
                  IN  IF r.status # "ok" THEN [status |-> "ValueError", molecules |-> <<>>]
                      ELSE parse_blocks(blocks, k + 1, Append(molecules, r.molecule))

\* parse_sdf(text): the list of molecules, or the ValueError raised
parse_sdf(text) == parse_blocks(split(strip(text), <<"$", "$", "$", "$">>), 1, <<>>)

----------------------------------------------------------------------------
(* Bond.other (chem/core/bond.py) and validate_valence                     *)
(* (chem/validators/core.py).                                              *)

\* returning an endpoint for every argument
other_never_raises(bond, atom_index) ==
    IF atom_index = bond.a THEN [status |-> "returned", index |-> bond.b]
    ELSE [status |-> "returned", index |-> bond.a]

\* Bond.other(atom_index): the index returned, or the ValueError raised
other(bond, atom_index) ==
    IF atom_index = bond.a THEN [status |-> "returned", index |-> bond.b]
    ELSE IF atom_index = bond.b THEN [status |-> "returned", index |-> bond.a]
    ELSE [status |-> "ValueError"]

\* _DEFAULT_VALENCE.get(atom.symbol): the valence, or None
DEFAULT_VALENCE(symbol) ==
    CASE symbol = <<"H">> -> 1 [] symbol = <<"B">> -> 3 [] symbol = <<"C">> -> 4
      [] symbol = <<"N">> -> 3 [] symbol = <<"O">> -> 2 [] symbol = <<"F">> -> 1
      [] symbol = <<"P">> -> 5 [] symbol = <<"S">> -> 6 [] symbol = <<"C", "l">> -> 1
      [] symbol = <<"B", "r">> -> 1 [] symbol = <<"I">> -> 1 [] OTHER -> None

\* Molecule.bonds_for_atom(index): the bonds with index among their atoms,
\* in bond-list order, each by its position
bonds_for_atom(m, index) ==
    SelectSeq([k \in DOMAIN m.bonds |-> k],
              LAMBDA k : index \in {m.bonds[k].a, m.bonds[k].b})

\* total += bond.order over these bonds, in half-units
RECURSIVE order_total(_, _)
order_total(m, ks) ==
    IF ks = <<>> THEN 0 ELSE m.bonds[Head(ks)].order + order_total(m, Tail(ks))

\* round(total) of a total in half-units: a half goes to the even neighbour
round(half_units) ==
    IF half_units % 2 = 0 THEN half_units \div 2
    ELSE IF (half_units \div 2) % 2 = 0 THEN half_units \div 2
    ELSE (half_units \div 2) + 1

abs(n) == IF n < 0 THEN -n ELSE n

\* the test reads total >= limit
valence_exceeded_at_limit(total, limit) == total >= limit

\* if total > allowed + abs(atom.charge)
valence_exceeded(total, limit) == total > limit

\* the loop of validate_valence from this atom index on
RECURSIVE validate_from(_, _)
validate_from(m, index) ==
    IF index >= Len(m.atoms) THEN [status |-> "returned"]
    ELSE LET atom == m.atoms[index + 1]
             allowed == DEFAULT_VALENCE(atom.symbol)
         IN  IF allowed = None THEN validate_from(m, index + 1)
             ELSE IF valence_exceeded(round(order_total(m, bonds_for_atom(m, index))),
                                      allowed + abs(atom.charge))
             THEN [status |-> "ValueError", index |-> index, symbol |-> atom.symbol]
             ELSE validate_from(m, index + 1)

\* validate_valence(molecule): returns, or raises naming an atom
validate_valence(m) == validate_from(m, 0)

----------------------------------------------------------------------------
(* The state machine.                                                      *)
(*   scan          the locals of the running parse_smiles call             *)
(*   molecule      the graph the caller holds: parsed or built directly    *)
(*   phase         "parsing", "failed" (parse_smiles raised), "building",  *)
(*                 "ring" (building a ring), "ready" (graph in use)        *)
(*   exported      <<>> or <<text>>: what to_smiles returned               *)
(*   ring_results  what each detect_aromatic_rings call returned           *)
(*   atoms_after   the atom list as each call left it                      *)
(*   ring_order    the atom indices around the ring being built, else <<>> *)
(*   sdf           name: the name given to to_sdf; text: <<>> or <<what    *)
(*                 to_sdf returned>>; parsed: <<>> or <<what parse_sdf     *)
(*                 returned or raised>>                                    *)
(*   other_call    a Bond.other call: its bond, its argument, its outcome  *)
(*   valence       <<>> or <<the outcome of validate_valence>>             *)

\* longer strings with branches and ring closures
Examples ==
    {<<"C", "(", "C", ")", "(", "C", ")", "C">>,
     <<"C", "(", "C", "(", "C", ")", ")", "C">>,
     <<"C", "(", "C", "(", ")", ")", "C">>,
     <<"C", "C", "(", "O", ")", "C">>,
     <<"C", "1", "C", "C", "C", "=", "1">>}

\* the input strings offered to parse_smiles
Inputs ==
    StringsUpTo(Alphabet, MaxLen) \cup {RingString(n) : n \in 3..MaxRingStr} \cup Examples

\* no parse_smiles call in progress
NoScan == [ScanInit(<<>>) EXCEPT !.status = "idle"]

\* the (order, aromatic) pairs of directly constructed bonds
BondKinds == {<<2, FALSE>>, <<4, FALSE>>}

\* the (order, aromatic) pairs of the bonds of a constructed ring
RingKinds == {<<3, FALSE>>, <<2, FALSE>>}

\* the orders in which a ring's atoms are numbered: 0, 1, ..., n - 1 around
\* the ring, and for small rings every permutation of these
RingOrders ==
    {[i \in 1..n |-> i - 1] : n \in 3..MaxRing}
    \cup UNION { {f \in [1..n -> 0..(n - 1)] : \A i, j \in 1..n : i # j => f[i] # f[j]}
                 : n \in 3..MaxPermRing }

\* no SDF text written, no Bond.other call made, validate_valence not called
NoSdf == [name |-> <<>>, text |-> <<>>, parsed |-> <<>>]
NoCall == [bond |-> <<>>, atom_index |-> None, result |-> <<>>]
NoOtherUse == sdf = NoSdf /\ other_call = NoCall /\ valence = <<>>

InitParse ==
    /\ scan \in {ScanInit(s) : s \in Inputs}
    /\ molecule = EmptyMolecule
    /\ phase = "parsing"
    /\ exported = <<>>
    /\ ring_results = <<>>
    /\ atoms_after = <<>>
    /\ ring_order = <<>>
    /\ NoOtherUse

InitBuild ==
    /\ scan = NoScan
    /\ molecule = EmptyMolecule
    /\ phase = "building"
    /\ exported = <<>>
    /\ ring_results = <<>>
    /\ atoms_after = <<>>
    /\ ring_order = <<>>
    /\ NoOtherUse

InitRing ==
    /\ scan = NoScan
    /\ molecule = EmptyMolecule
    /\ phase = "ring"
    /\ exported = <<>>
    /\ ring_results = <<>>
    /\ atoms_after = <<>>
    /\ ring_order \in RingOrders
    /\ NoOtherUse

Scanning == phase = "parsing" /\ scan.status = "scanning"

\* the parse_smiles call moves to locals p: it goes on, raises or returns
ScanTo(p) ==
    /\ scan' = p
    /\ phase' = CASE p.status = "scanning" -> "parsing"
                  [] p.status = "returned" -> "ready"
                  [] OTHER -> "failed"
    /\ molecule' = IF p.status = "returned" THEN p.molecule ELSE molecule
    /\ UNCHANGED <<exported, ring_results, atoms_after, ring_order, sdf, other_call, valence>>

BondSymbol ==
    /\ Scanning /\ ~AtEnd(scan)
    /\ CurChar(scan) \in {"-", "=", "#", ":"}
    /\ ScanTo(ScanBondSymbol(scan))

BranchOpen ==
    /\ Scanning /\ ~AtEnd(scan)
    /\ CurChar(scan) = "("
    /\ ScanTo(ScanBranchOpen(scan))

BranchClose ==
    /\ Scanning /\ ~AtEnd(scan)
    /\ CurChar(scan) = ")"
    /\ ScanTo(ScanBranchClose(scan))

RingDigit ==
    /\ Scanning /\ ~AtEnd(scan)
    /\ isdigit(CurChar(scan))
    /\ ScanTo(ScanRingDigit(scan))

AtomToken ==
    /\ Scanning /\ ~AtEnd(scan)
    /\ CurChar(scan) \notin {"-", "=", "#", ":", "(", ")"}
    /\ ~isdigit(CurChar(scan))
    /\ ScanTo(ScanAtom(scan))

EndOfInput ==
    /\ Scanning /\ AtEnd(scan)
    /\ ScanTo(ScanEnd(scan))

\* direct construction: molecule.add_atom(Atom(symbol="C"))
AddAtom ==
    /\ phase = "building"
    /\ Len(molecule.atoms) < MaxAtoms
    /\ molecule' = add_atom(molecule, Atom(<<"C">>, FALSE))
    /\ UNCHANGED <<scan, phase, exported, ring_results, atoms_after, ring_order, sdf, other_call, valence>>

\* direct construction: molecule.add_bond(Bond((a, b), order, aromatic))
AddBond ==
    /\ phase = "building"
    /\ Len(molecule.bonds) < MaxBonds
    /\ \E a, b \in 0..(Len(molecule.atoms) - 1), kind \in BondKinds :
          /\ a < b
          /\ molecule' = add_bond(molecule, Bond(a, b, kind[1], kind[2]))
    /\ UNCHANGED <<scan, phase, exported, ring_results, atoms_after, ring_order, sdf, other_call, valence>>

\* the tests' ring construction: first the atoms
RingAddAtom ==
    /\ phase = "ring"
    /\ Len(molecule.atoms) < Len(ring_order)
    /\ molecule' = add_atom(molecule, Atom(<<"C">>, FALSE))
    /\ UNCHANGED <<scan, phase, exported, ring_results, atoms_after, ring_order, sdf, other_call, valence>>

\* the tests' ring construction: then Bond((atoms[i], atoms[(i + 1) % n]))
RingAddBond ==
    /\ phase = "ring"
    /\ Len(molecule.atoms) = Len(ring_order)
    /\ Len(molecule.bonds) < Len(ring_order)
    /\ \E kind \in RingKinds :
          LET i == Len(molecule.bonds)
              n == Len(ring_order)
          IN  /\ IF n <= MaxMixedRing \/ i = 0
                 THEN TRUE
                 ELSE kind = <<molecule.bonds[1].order, molecule.bonds[1].aromatic>>
              /\ molecule' = add_bond(molecule,
                  Bond(ring_order[i + 1], ring_order[((i + 1) % n) + 1], kind[1], kind[2]))
    /\ UNCHANGED <<scan, phase, exported, ring_results, atoms_after, ring_order, sdf, other_call, valence>>

\* the caller holds a finished graph
Usable ==
    \/ phase \in {"ready", "building"}
    \/ phase = "ring" /\ Len(molecule.bonds) = Len(ring_order)

\* rings = detect_aromatic_rings(molecule)
DetectAromaticRings ==
    /\ Usable
    /\ Len(ring_results) < MaxRuns
    /\ \E r \in {detect_aromatic_rings(molecule)} :
           /\ molecule' = r.molecule
           /\ ring_results' = Append(ring_results, r.rings)
           /\ atoms_after' = Append(atoms_after, r.molecule.atoms)
    /\ phase' = "ready"
    /\ UNCHANGED <<scan, exported, ring_order, sdf, other_call, valence>>

\* exported = to_smiles(molecule)
ToSmiles ==
    /\ Usable
    /\ exported = <<>>
    /\ exported' = <<to_smiles(molecule)>>
    /\ phase' = "ready"
    /\ UNCHANGED <<scan, molecule, ring_results, atoms_after, ring_order, sdf, other_call, valence>>

\* the names given to to_sdf
SdfNames == {<<"m">>, <<"H", "2", "O">>}

\* the atoms of a graph written as SDF text: a one-letter symbol with each
\* formal charge, and a neutral two-letter symbol
SdfAtoms ==
    {ChargedAtom(<<"C">>, charge) : charge \in -3..3} \cup {ChargedAtom(<<"C", "l">>, 0)}

\* the bond orders SDF has a code for: 1.0, 2.0, 3.0, 1.5
SdfOrders == {2, 4, 6, 3}

InitSdf ==
    /\ scan = NoScan
    /\ molecule = EmptyMolecule
    /\ phase = "sdf"
    /\ exported = <<>>
    /\ ring_results = <<>>
    /\ atoms_after = <<>>
    /\ ring_order = <<>>
    /\ sdf \in {[NoSdf EXCEPT !.name = name] : name \in SdfNames}
    /\ other_call = NoCall
    /\ valence = <<>>

\* molecule.add_atom(Atom(symbol=..., charge=...)) before the text is written
SdfAddAtom ==
    /\ phase = "sdf"
    /\ sdf.text = <<>>
    /\ Len(molecule.atoms) < MaxSdfAtoms
    /\ \E atom \in SdfAtoms : molecule' = add_atom(molecule, atom)
    /\ UNCHANGED <<scan, phase, exported, ring_results, atoms_after, ring_order, sdf, other_call, valence>>

\* molecule.add_bond(Bond((a, b), order=...)) before the text is written
SdfAddBond ==
    /\ phase = "sdf"
    /\ sdf.text = <<>>
    /\ Len(molecule.bonds) < MaxSdfBonds
    /\ \E a, b \in 0..(Len(molecule.atoms) - 1), order \in SdfOrders :
          /\ a # b
          /\ molecule' = add_bond(molecule, Bond(a, b, order, FALSE))
    /\ UNCHANGED <<scan, phase, exported, ring_results, atoms_after, ring_order, sdf, other_call, valence>>

\* sdf_text = to_sdf(molecule, name=...)
ToSdf ==
    /\ phase = "sdf"
    /\ sdf.text = <<>>
    /\ sdf' = [sdf EXCEPT !.text = <<to_sdf(molecule, sdf.name)>>]
    /\ UNCHANGED <<scan, molecule, phase, exported, ring_results, atoms_after, ring_order, other_call, valence>>

\* parsed = parse_sdf(sdf_text)
ParseSdf ==
    /\ phase = "sdf"
    /\ sdf.text # <<>>
    /\ sdf.parsed = <<>>
    /\ \E r \in {parse_sdf(sdf.text[1])} : sdf' = [sdf EXCEPT !.parsed = <<r>>]
    /\ UNCHANGED <<scan, molecule, phase, exported, ring_results, atoms_after, ring_order, other_call, valence>>

\* a bond and the argument of a Bond.other call on it
InitOther ==
    /\ scan = NoScan
    /\ molecule = EmptyMolecule
    /\ phase = "bond"
    /\ exported = <<>>
    /\ ring_results = <<>>
    /\ atoms_after = <<>>
    /\ ring_order = <<>>
    /\ sdf = NoSdf
    /\ other_call \in {[bond |-> <<Bond(a, b, 2, FALSE)>>, atom_index |-> x, result |-> <<>>]
                         : a \in 0..MaxIndex, b \in 0..MaxIndex, x \in 0..MaxIndex}
    /\ valence = <<>>

\* bond.other(atom_index)
BondOther ==
    /\ phase = "bond"
    /\ other_call.result = <<>>
    /\ other_call' = [other_call EXCEPT
                         !.result = <<other(other_call.bond[1], other_call.atom_index)>>]
    /\ UNCHANGED <<scan, molecule, phase, exported, ring_results, atoms_after, ring_order, sdf, valence>>

\* the first atom of a graph given to validate_valence: a listed element or
\* one that _DEFAULT_VALENCE does not list; and the atoms bonded to it
CentreSymbols == {<<"C">>, <<"N">>, <<"X">>}
NeighborSymbols == {<<"H">>, <<"O">>}

InitValence ==
    /\ scan = NoScan
    /\ molecule = EmptyMolecule
    /\ phase = "valence"
    /\ exported = <<>>
    /\ ring_results = <<>>
    /\ atoms_after = <<>>
    /\ ring_order = <<>>
    /\ NoOtherUse

\* the tests' construction: the first atom, then the atoms to bond to it
ValenceAddAtom ==
    /\ phase = "valence"
    /\ valence = <<>>
    /\ molecule.bonds = <<>>
    /\ Len(molecule.atoms) < 1 + MaxNeighbors
    /\ \E symbol \in (IF molecule.atoms = <<>> THEN CentreSymbols ELSE NeighborSymbols) :
          molecule' = add_atom(molecule, Atom(symbol, FALSE))
    /\ UNCHANGED <<scan, phase, exported, ring_results, atoms_after, ring_order, sdf, other_call, valence>>

\* the tests' construction: molecule.add_bond(Bond((carbon, hydrogen))) for
\* the next hydrogen, the order 1.0 or 2.0
ValenceAddBond ==
    /\ phase = "valence"
    /\ valence = <<>>
    /\ Len(molecule.bonds) < Len(molecule.atoms) - 1
    /\ \E order \in {2, 4} :
          molecule' = add_bond(molecule, Bond(0, Len(molecule.bonds) + 1, order, FALSE))
    /\ UNCHANGED <<scan, phase, exported, ring_results, atoms_after, ring_order, sdf, other_call, valence>>

\* validate_valence(molecule)
ValidateValence ==
    /\ phase = "valence"
    /\ valence = <<>>
    /\ valence' = <<validate_valence(molecule)>>
    /\ UNCHANGED <<scan, molecule, phase, exported, ring_results, atoms_after, ring_order, sdf, other_call>>

NextParse ==
    \/ BondSymbol \/ BranchOpen \/ BranchClose \/ RingDigit \/ AtomToken \/ EndOfInput
    \/ DetectAromaticRings \/ ToSmiles

NextBuild == AddAtom \/ AddBond \/ DetectAromaticRings \/ ToSmiles

NextRing == RingAddAtom \/ RingAddBond \/ DetectAromaticRings \/ ToSmiles

\* parsing a string, then using the graph
SpecParse == InitParse /\ [][NextParse]_vars

\* constructing a graph directly, then using it
SpecBuild == InitBuild /\ [][NextBuild]_vars

\* constructing a ring as the tests do, then using it
SpecRing == InitRing /\ [][NextRing]_vars

\* writing a graph as SDF text and reading the text back
NextSdf == SdfAddAtom \/ SdfAddBond \/ ToSdf \/ ParseSdf

SpecSdf == InitSdf /\ [][NextSdf]_vars

\* a Bond.other call
NextOther == BondOther

SpecOther == InitOther /\ [][NextOther]_vars

\* constructing a graph as the valence tests do, then validating it
NextValence == ValenceAddAtom \/ ValenceAddBond \/ ValidateValence

SpecValence == InitValence /\ [][NextValence]_vars

Init == InitParse \/ InitBuild \/ InitRing

Next ==
    \/ BondSymbol \/ BranchOpen \/ BranchClose \/ RingDigit \/ AtomToken \/ EndOfInput
    \/ AddAtom \/ AddBond
    \/ RingAddAtom \/ RingAddBond
    \/ DetectAromaticRings \/ ToSmiles

Spec == Init /\ [][Next]_vars

----------------------------------------------------------------------------
(* Vocabulary of the properties.                                           *)

\* the bonds have distinct endpoints that are valid atom indices
WellFormed(m) ==
    \A k \in DOMAIN m.bonds :
        /\ m.bonds[k].a # m.bonds[k].b
        /\ {m.bonds[k].a, m.bonds[k].b} \subseteq 0..(Len(m.atoms) - 1)

\* the atoms reachable from atom 0 through bonds
RECURSIVE Closure(_, _)
Closure(m, S) ==
    LET more == S \cup {m.bonds[k].b : k \in {j \in DOMAIN m.bonds : m.bonds[j].a \in S}}
                  \cup {m.bonds[k].a : k \in {j \in DOMAIN m.bonds : m.bonds[j].b \in S}}
    IN  IF more = S THEN S ELSE Closure(m, more)

ReachableFrom0(m) == IF m.atoms = <<>> THEN {} ELSE Closure(m, {0})

\* how many bonds of m join the atoms a and b with this order
BondCount(m, a, b, order) ==
    Cardinality({k \in DOMAIN m.bonds :
                    {m.bonds[k].a, m.bonds[k].b} = {a, b} /\ m.bonds[k].order = order})

\* g and h are the same graph up to a renumbering f of the atoms: same
\* symbol and aromatic flag on matching atoms, same multiset of bonds
Isomorphic(g, h) ==
    /\ Len(g.atoms) = Len(h.atoms)
    /\ Len(g.bonds) = Len(h.bonds)
    /\ LET idx == 0..(Len(g.atoms) - 1)
       IN  \E f \in [idx -> idx] :
              /\ \A i, j \in idx : i # j => f[i] # f[j]
              /\ \A i \in idx :
                    /\ h.atoms[f[i] + 1].symbol = g.atoms[i + 1].symbol
                    /\ h.atoms[f[i] + 1].aromatic = g.atoms[i + 1].aromatic
              /\ \A k \in DOMAIN g.bonds :
                    LET a == g.bonds[k].a
                        b == g.bonds[k].b
                        order == g.bonds[k].order
                    IN  BondCount(g, a, b, order) = BondCount(h, f[a], f[b], order)

\* how often the character ch occurs in text
Occurrences(text, ch) == Cardinality({i \in DOMAIN text : text[i] = ch})

\* to_smiles has run on the graph as it stands (no classifier run around it)
ExportedOnly == exported # <<>> /\ ring_results = <<>>

----------------------------------------------------------------------------
(* C1.  For every graph with at least one atom, whose bonds join distinct  *)
(* valid atom indices and whose atoms are all reachable from atom 0,       *)
(* parse_smiles(to_smiles(g)) succeeds and returns a graph isomorphic to   *)
(* g: the same atoms (symbol, aromatic flag) and the same multiset of      *)
(* bonds (endpoints under the isomorphism, and order).                     *)
C1_RoundTripIsomorphic ==
    (/\ ExportedOnly
     /\ molecule.atoms # <<>>
     /\ WellFormed(molecule)
     /\ ReachableFrom0(molecule) = 0..(Len(molecule.atoms) - 1))
    => \E r \in {parse_smiles(exported[1])} :
          /\ r.status = "returned"
          /\ Isomorphic(molecule, r.molecule)

(* C2.  Every string returned by to_smiles is notation that parse_smiles   *)
(* accepts, and each ring-closure label in it occurs exactly twice, so no  *)
(* ring is left unclosed.                                                  *)
C2_ExportParsesRingsClosed ==
    exported # <<>>
    => /\ parse_smiles(exported[1]).status = "returned"
       /\ \A d \in Range(Digits) : Occurrences(exported[1], d) \in {0, 2}

\* the ring under construction is complete, numbered 0 .. n - 1 around the
\* ring, with every bond of this (order, aromatic) kind
SequentialRing(n, kind) ==
    /\ ring_order = [i \in 1..n |-> i - 1]
    /\ Len(molecule.bonds) = n
    /\ \A k \in DOMAIN molecule.bonds :
          molecule.bonds[k].order = kind[1] /\ molecule.bonds[k].aromatic = kind[2]

(* C3.  On a single ring of 10 atoms, bonds i -- (i + 1) mod 10, all of    *)
(* order 1.5 and aromatic flag false, detect_aromatic_rings returns        *)
(* exactly one cycle, it contains all 10 atoms, and afterwards every atom  *)
(* has its aromatic flag set.                                              *)
C3_TenRingDetected ==
    (SequentialRing(10, <<3, FALSE>>) /\ ring_results # <<>>)
    => /\ Len(ring_results[1]) = 1
       /\ Range(ring_results[1][1]) = 0..9
       /\ \A i \in DOMAIN atoms_after[1] : atoms_after[1][i].aromatic

\* consecutive atoms of the sequence (and last / first) are bonded
ConsecutiveBonded(m, cycle) ==
    \A i \in DOMAIN cycle : get_bond(m, cycle[i], cycle[(i % Len(cycle)) + 1]) # 0

(* C4.  Every elementary cycle of 3 to 8 atoms whose bonds all pass the    *)
(* aromaticity test is returned by detect_aromatic_rings exactly once, as  *)
(* a sequence whose consecutive atoms are bonded, and its atoms are        *)
(* flagged aromatic, whatever the numbering of the ring's atoms.  Stated   *)
(* for the ring under construction, which is such a cycle.                 *)
C4_AromaticCycleReturned ==
    (/\ phase = "ready"
     /\ Len(ring_order) \in 3..8
     /\ \A k \in DOMAIN molecule.bonds : bond_passes(molecule.bonds[k])
     /\ ring_results # <<>>)
    => /\ Cardinality({j \in DOMAIN ring_results[1] :
                          Range(ring_results[1][j]) = Range(ring_order)}) = 1
       /\ \A j \in DOMAIN ring_results[1] : ConsecutiveBonded(molecule, ring_results[1][j])
       /\ \A i \in DOMAIN atoms_after[1] : atoms_after[1][i].aromatic

\* a ring string of n atoms was parsed and the graph is in use
RingStringParsed(n) == scan.smiles = RingString(n) /\ phase = "ready"

(* C5.  For every ring size n from 3 to 8, parsing "c1" c ... "c1" with n  *)
(* atoms gives n atoms all flagged aromatic and n bonds all flagged        *)
(* aromatic that form one ring; detect_aromatic_rings returns exactly one  *)
(* cycle, of length n; to_smiles starts with a lower-case symbol.          *)
C5_AromaticRingString ==
    \A n \in 3..8 :
        RingStringParsed(n)
        => /\ Len(scan.molecule.atoms) = n
           /\ \A i \in 1..n : scan.molecule.atoms[i].aromatic
           /\ Len(scan.molecule.bonds) = n
           /\ \A k \in 1..n : scan.molecule.bonds[k].aromatic
           /\ {{scan.molecule.bonds[k].a, scan.molecule.bonds[k].b} : k \in 1..n}
                 = {{i, (i + 1) % n} : i \in 0..(n - 1)}
           /\ ring_results # <<>>
                 => Len(ring_results[1]) = 1 /\ Len(ring_results[1][1]) = n
           /\ exported # <<>> => islower(exported[1][1])

\* the largest such ring was parsed, classified and written
C5_Witness == RingStringParsed(8) /\ ring_results # <<>> /\ exported # <<>>

BondSymbolChars == {"-", "=", "#", ":"}

\* only element tokens and bond symbols
LinearString(s) == \A i \in DOMAIN s : isalpha(s[i]) \/ s[i] \in BondSymbolChars

(* C6.  For every string of element tokens and bond symbols only,          *)
(* to_smiles(parse_smiles(s)) re-parses to the same atoms in the same      *)
(* order and the same bonds (endpoints, order, aromatic flag); with only   *)
(* implicit bonds the output equals s.                                     *)
C6_LinearRoundTrip ==
    (/\ phase = "ready"
     /\ scan.status = "returned"
     /\ LinearString(scan.smiles)
     /\ ExportedOnly)
    => \E r \in {parse_smiles(exported[1])} :
          /\ r.status = "returned"
          /\ r.molecule = scan.molecule
          /\ (\A i \in DOMAIN scan.smiles : isalpha(scan.smiles[i]))
                => exported[1] = scan.smiles

\* the part of the input the scan has consumed
Consumed(p) == SubSeq(p.smiles, 1, p.index)

\* the five failure conditions, read off the input string alone
NoAtomYet(p) == \A i \in DOMAIN Consumed(p) : ~isalpha(Consumed(p)[i])
NoOpenBranch(p) == Occurrences(Consumed(p), "(") = Occurrences(Consumed(p), ")")
OpenRingLabel(p) == \E d \in Range(Digits) : Occurrences(Consumed(p), d) % 2 = 1

FailureCondition(p) ==
    IF AtEnd(p) THEN OpenRingLabel(p)
    ELSE \/ ~(CurChar(p) \in BondSymbolChars \cup {"(", ")"}
                \/ isdigit(CurChar(p)) \/ isalpha(CurChar(p)))
         \/ CurChar(p) = ")" /\ NoOpenBranch(p)
         \/ CurChar(p) = "(" /\ NoAtomYet(p)
         \/ isdigit(CurChar(p)) /\ NoAtomYet(p)

(* C7.  parse_smiles fails exactly when the scan meets one of five         *)
(* conditions: an unexpected character; ")" with the branch stack empty;   *)
(* "(" before any atom; a ring digit before any atom; end of input with a  *)
(* ring label still open.  Otherwise the scan moves on or returns a graph. *)
C7_FailsExactlyOnFiveConditions ==
    [][Scanning =>
          /\ (phase' = "failed") <=> FailureCondition(scan)
          /\ phase' # "failed" =>
                \/ phase' = "parsing" /\ scan'.index > scan.index
                \/ phase' = "ready" /\ AtEnd(scan) /\ molecule' = scan.molecule]_vars

\* a parse of a longest input failed at its end with a ring label open
C7_Witness == phase = "failed" /\ scan.status = "UnclosedRings" /\ Len(scan.smiles) = MaxLen

(* C8.  In every graph returned by parse_smiles, and after every step of   *)
(* the scan, each bond joins two distinct atom indices that are valid      *)
(* indices into the atom sequence.                                         *)
C8_BondsJoinDistinctAtoms ==
    scan.status \in {"scanning", "returned"} => WellFormed(scan.molecule)

(* C9.  detect_aromatic_rings is idempotent: a second run returns the      *)
(* same set of cycles as the first and leaves every atom's aromatic flag   *)
(* as the first run left it.                                               *)
C9_DetectIdempotent ==
    \A k \in 2..Len(ring_results) :
        /\ Range(ring_results[k]) = Range(ring_results[1])
        /\ atoms_after[k] = atoms_after[1]

\* the classifier ran twice on a graph with an aromatic cycle
C9_Witness == Len(ring_results) >= 2 /\ ring_results[1] # <<>>

\* the atoms on the cycles that the latest classifier run returned
ReturnedAtoms(results) ==
    UNION {Range(results[Len(results)][j]) : j \in DOMAIN results[Len(results)]}

(* C10.  detect_aromatic_rings changes nothing in the graph except setting *)
(* the aromatic flag on atoms that lie on a returned cycle: atoms and      *)
(* bonds keep length, order and contents, an atom on no returned cycle     *)
(* keeps its flag, and a flag that is true is never cleared.               *)
C10_DetectFrame ==
    [][Len(ring_results') > Len(ring_results) =>
          /\ molecule'.bonds = molecule.bonds
          /\ Len(molecule'.atoms) = Len(molecule.atoms)
          /\ \A i \in DOMAIN molecule.atoms :
                /\ [molecule'.atoms[i] EXCEPT !.aromatic = molecule.atoms[i].aromatic]
                      = molecule.atoms[i]
                /\ molecule.atoms[i].aromatic => molecule'.atoms[i].aromatic
                /\ (i - 1) \notin ReturnedAtoms(ring_results')
                      => molecule'.atoms[i].aromatic = molecule.atoms[i].aromatic
                /\ (i - 1) \in ReturnedAtoms(ring_results')
                      => molecule'.atoms[i].aromatic]_vars

\* the classifier flagged the atoms of a directly constructed ring
C10_Witness ==
    /\ scan.status = "idle"
    /\ Len(ring_results) = 1
    /\ ring_results[1] # <<>>
    /\ \A i \in DOMAIN molecule.atoms : molecule.atoms[i].aromatic

(* C11.  For every molecule whose atoms have formal charges in -3..+3 and  *)
(* whose bonds have order 1, 2, 3 or 1.5, and every non-empty name,        *)
(* parse_sdf(to_sdf(m, name)) returns exactly one molecule with the same   *)
(* number of atoms and bonds, the same atom symbols in the same order, the *)
(* same formal charge on each atom, and the same bond endpoints and        *)
(* orders.                                                                 *)
C11_SdfRoundTrip ==
    (/\ phase = "sdf"
     /\ sdf.parsed # <<>>
     /\ sdf.name # <<>>
     /\ \A i \in DOMAIN molecule.atoms : molecule.atoms[i].charge \in -3..3
     /\ \A k \in DOMAIN molecule.bonds : molecule.bonds[k].order \in {2, 4, 6, 3})
    => /\ sdf.parsed[1].status = "returned"
       /\ Len(sdf.parsed[1].molecules) = 1
       /\ \E parsed_mol \in {sdf.parsed[1].molecules[1]} :
             /\ Len(parsed_mol.atoms) = Len(molecule.atoms)
             /\ Len(parsed_mol.bonds) = Len(molecule.bonds)
             /\ \A i \in DOMAIN molecule.atoms :
                   /\ parsed_mol.atoms[i].symbol = molecule.atoms[i].symbol
                   /\ parsed_mol.atoms[i].charge = molecule.atoms[i].charge
             /\ \A k \in DOMAIN molecule.bonds :
                   /\ parsed_mol.bonds[k].a = molecule.bonds[k].a
                   /\ parsed_mol.bonds[k].b = molecule.bonds[k].b
                   /\ parsed_mol.bonds[k].order = molecule.bonds[k].order

(* C12.  For a bond between atoms a and b, Bond.other(a) returns b and     *)
(* Bond.other(b) returns a, and Bond.other(x) for any x that is neither a  *)
(* nor b raises an error and returns no index.                             *)
C12_BondOther ==
    other_call.result # <<>>
    => \E bond \in {other_call.bond[1]}, x \in {other_call.atom_index},
          r \in {other_call.result[1]} :
          /\ x = bond.a => r = [status |-> "returned", index |-> bond.b]
          /\ x = bond.b => r = [status |-> "returned", index |-> bond.a]
          /\ x \notin {bond.a, bond.b} => r.status = "ValueError" /\ DOMAIN r = {"status"}

\* other was called on the bond between atoms 2 and 5 with a third index
C12_Witness ==
    /\ other_call.result # <<>>
    /\ other_call.bond[1].a = 2
    /\ other_call.bond[1].b = 5
    /\ other_call.atom_index = 3

\* the bonds of m at atom i with this order
BondsAt(m, i, order) ==
    {k \in DOMAIN m.bonds : i \in {m.bonds[k].a, m.bonds[k].b} /\ m.bonds[k].order = order}

\* atom i is of a listed element and its bond orders (1, 2 and 3) add up to
\* more than the element's default valence
ExceedsValence(m, i) ==
    /\ DEFAULT_VALENCE(m.atoms[i + 1].symbol) # None
    /\ Cardinality(BondsAt(m, i, 2)) + 2 * Cardinality(BondsAt(m, i, 4))
          + 3 * Cardinality(BondsAt(m, i, 6))
       > DEFAULT_VALENCE(m.atoms[i + 1].symbol)

(* C13.  For a graph of neutral atoms with integer bond orders,            *)
(* validate_valence succeeds when every atom of a listed element has a     *)
(* bond-order sum no greater than the element's default valence, and       *)
(* otherwise fails with an error naming the lowest-index atom that exceeds *)
(* it; it never mutates the graph.                                         *)
C13_ValenceBoundary ==
    [][(/\ valence = <<>>
        /\ valence' # <<>>
        /\ \A i \in DOMAIN molecule.atoms : molecule.atoms[i].charge = 0
        /\ \A k \in DOMAIN molecule.bonds : molecule.bonds[k].order \in {2, 4, 6})
       => /\ molecule' = molecule
          /\ LET over == {i \in 0..(Len(molecule.atoms) - 1) : ExceedsValence(molecule, i)}
             IN  IF over = {} THEN valence'[1].status = "returned"
                 ELSE \E i \in over :
                         /\ \A j \in over : i <= j
                         /\ valence'[1] = [status |-> "ValueError", index |-> i,
                                           symbol |-> molecule.atoms[i + 1].symbol]]_vars

\* validate_valence passed a carbon with 4 single bonds, the methane shape
C13_Witness ==
    /\ valence # <<>>
    /\ valence[1].status = "returned"
    /\ Len(molecule.atoms) = 5
    /\ molecule.atoms[1].symbol = <<"C">>
    /\ Len(molecule.bonds) = 4
    /\ \A k \in DOMAIN molecule.bonds : molecule.bonds[k].order = 2

\* the number of bond ends at atom i
Degree(m, i) ==
    Cardinality({k \in DOMAIN m.bonds : m.bonds[k].a = i})
        + Cardinality({k \in DOMAIN m.bonds : m.bonds[k].b = i})

\* acyclic and in one piece: every atom reachable from atom 0 over one
\* bond fewer than there are atoms
Tree(m) ==
    /\ m.atoms # <<>>
    /\ WellFormed(m)
    /\ ReachableFrom0(m) = 0..(Len(m.atoms) - 1)
    /\ Len(m.bonds) = Len(m.atoms) - 1

\* in the traversal of a tree from atom 0 some atom has two or more
\* unvisited neighbours: atom 0 with two bonds, or a later atom with three
Branching(m) ==
    \/ Degree(m, 0) >= 2
    \/ \E i \in 1..(Len(m.atoms) - 1) : Degree(m, i) >= 3

\* h has the atoms of g with the same symbols and the same neighbours, atom
\* 0 (the first atom written and the first atom read) being the same atom
SameNeighbours(g, h) ==
    /\ Len(g.atoms) = Len(h.atoms)
    /\ LET idx == 0..(Len(g.atoms) - 1)
       IN  \E f \in [idx -> idx] :
              /\ f[0] = 0
              /\ \A i, j \in idx : i # j => f[i] # f[j]
              /\ \A i \in idx : h.atoms[f[i] + 1].symbol = g.atoms[i + 1].symbol
              /\ \A i, j \in idx : (get_bond(g, i, j) # 0) <=> (get_bond(h, f[i], f[j]) # 0)

(* C14.  For an acyclic graph in which some atom has two or more unvisited *)
(* neighbours during the traversal from atom 0, re-parsing the to_smiles   *)
(* output bonds every one of those branches to that same atom, so each     *)
(* atom keeps the same neighbour symbols as in the input.                  *)
C14_BranchesKeepTheirAtom ==
    (ExportedOnly /\ Tree(molecule) /\ Branching(molecule))
    => \E r \in {parse_smiles(exported[1])} :
          /\ r.status = "returned"
          /\ SameNeighbours(molecule, r.molecule)

\* the scan is at a ring digit whose label is open, with a previous atom:
\* the step that closes the ring
ClosingStep ==
    /\ Scanning
    /\ ~AtEnd(scan)
    /\ isdigit(CurChar(scan))
    /\ scan.prev_atom # None
    /\ CurChar(scan) \in DictKeys(scan.ring_closures)

\* the orders a ring-closure bond may get from the two sides: that of the
\* side which gave a bond symbol, order 1.0 if neither did
ClosureOrders(opening_order, closing_order) ==
    IF opening_order = 2 THEN {closing_order}
    ELSE IF closing_order = 2 THEN {opening_order}
    ELSE {opening_order, closing_order}

(* C15.  When parse_smiles closes a ring label, the emitted bond joins the *)
(* atom recorded at the opening digit and the current previous atom, its   *)
(* order is the order given by a bond symbol on whichever side specified   *)
(* one (before the closing digit just as before the opening digit), and it *)
(* is flagged aromatic if either side gave ":" or either endpoint atom is  *)
(* aromatic.                                                               *)
C15_RingClosureBond ==
    [][ClosingStep =>
          \E opening \in {DictGet(scan.ring_closures, CurChar(scan))} :
             /\ Len(scan'.molecule.bonds) = Len(scan.molecule.bonds) + 1
             /\ \E bond \in {scan'.molecule.bonds[Len(scan'.molecule.bonds)]} :
                   /\ bond.a = opening.atom
                   /\ bond.b = scan.prev_atom
                   /\ bond.order \in ClosureOrders(opening.order, scan.bond_order)
                   /\ bond.aromatic <=>
                         \/ opening.aromatic \/ scan.aromatic_bond
                         \/ atom_aromatic(scan.molecule, opening.atom)
                         \/ atom_aromatic(scan.molecule, scan.prev_atom)]_vars

\* the scan is at an element token
AtomStep == Scanning /\ ~AtEnd(scan) /\ isalpha(CurChar(scan))

\* the bond symbol that precedes the token at the scan index, parentheses
\* apart: <<symbol>>, or <<>> when an atom or a ring digit comes first
PrecedingSymbol(p) ==
    LET before == {j \in 1..p.index : p.smiles[j] \notin {"(", ")"}}
    IN  IF before = {} THEN <<>>
        ELSE LET j == CHOOSE h \in before : \A g \in before : g <= h
             IN  IF p.smiles[j] \in BondSymbolChars THEN <<p.smiles[j]>> ELSE <<>>

(* C16.  For an atom token with a previous atom, parse_smiles emits one    *)
(* bond previous-atom -> new atom whose order is the order of the bond     *)
(* symbol that preceded it; the upgrade to order 1.5 (flagged aromatic)    *)
(* applies only when the new atom is aromatic and no explicit bond symbol  *)
(* preceded it, so an explicit "-" before an aromatic atom gives order     *)
(* 1.0.  After any atom or ring-digit token the pending bond state is back *)
(* at (order 1.0, not aromatic).                                           *)
C16_AtomBondOrder ==
    [][/\ (AtomStep /\ scan.prev_atom # None) =>
             /\ Len(scan'.molecule.bonds) = Len(scan.molecule.bonds) + 1
             /\ \E bond \in {scan'.molecule.bonds[Len(scan'.molecule.bonds)]},
                   symbol \in {PrecedingSymbol(scan)} :
                   /\ bond.a = scan.prev_atom
                   /\ bond.b = Len(scan.molecule.atoms)
                   /\ symbol # <<>> => bond.order = SYMBOL_TO_ORDER[symbol[1]]
                   /\ (symbol = <<>> /\ islower(CurChar(scan)))
                         => bond.order = 3 /\ bond.aromatic
                   /\ (symbol = <<>> /\ ~islower(CurChar(scan))) => bond.order = 2
       /\ (Scanning /\ ~AtEnd(scan) /\ phase' # "failed"
             /\ (isalpha(CurChar(scan)) \/ isdigit(CurChar(scan))))
            => scan'.bond_order = 2 /\ ~scan'.aromatic_bond]_vars

\* the ring under construction is complete
RingBuilt == ring_order # <<>> /\ Len(molecule.bonds) = Len(ring_order)

(* C17.  _find_cycles deduplicates by member-atom set: it returns at most  *)
(* one entry per distinct set of cycle atoms, whichever start atom,        *)
(* rotation or direction the search found it from (a single n-atom ring,   *)
(* 3 <= n <= 8, yields exactly one entry), and each entry lists every      *)
(* member atom of the cycle exactly once.                                  *)
C17_OneEntryPerCycle ==
    RingBuilt
    => \E cycles \in {find_cycles(molecule)} :
          /\ \A j, k \in DOMAIN cycles :
                j # k => Range(cycles[j]) # Range(cycles[k])
          /\ Len(ring_order) \in 3..8 => Len(cycles) = 1
          /\ \A j \in DOMAIN cycles :
                /\ Range(cycles[j]) = Range(ring_order)
                /\ Len(cycles[j]) = Cardinality(Range(cycles[j]))

\* every entry has between 3 and 8 member atoms
BoundedCycles(cycles) ==
    \A j \in DOMAIN cycles : Cardinality(Range(cycles[j])) \in 3..8

(* C18.  The cycle search is bounded: every cycle reported by _find_cycles *)
(* and by detect_aromatic_rings has between 3 and 8 member atoms, so a     *)
(* ring of 9 or more atoms, two atoms joined by parallel bonds and one     *)
(* atom with a self-bond are never reported; the search ends on every      *)
(* graph, the empty and the disconnected ones included, without raising.   *)
C18_CyclesBounded ==
    Usable
    => /\ BoundedCycles(find_cycles(molecule))
       /\ \A k \in DOMAIN ring_results : BoundedCycles(ring_results[k])

\* an element token starts at position j of s: a letter that is not the
\* lower-case second letter of a two-letter symbol
TokenStart(s, j) ==
    /\ isalpha(s[j])
    /\ ~(islower(s[j]) /\ j > 1 /\ s[j - 1] \in Range(Uppers))

\* the index of the atom whose token covers position j: the atoms are
\* numbered in the order of their tokens
AtomAt(s, j) == Cardinality({i \in 1..j : TokenStart(s, i)}) - 1

\* the position of the "(" that the ")" at position j closes
MatchingOpen(s, j) ==
    CHOOSE o \in 1..(j - 1) :
        /\ s[o] = "("
        /\ Occurrences(SubSeq(s, o + 1, j - 1), "(") = Occurrences(SubSeq(s, o + 1, j - 1), ")")
        /\ \A i \in (o + 1)..(j - 1) :
              Occurrences(SubSeq(s, o + 1, i), ")") <= Occurrences(SubSeq(s, o + 1, i), "(")

\* the previous atom when the scan of an accepted string stands at position
\* j, read off the string from right to left: the atom of the nearest
\* letter, or what the nearest ")" restored
RECURSIVE PreviousAtomAt(_, _)
PreviousAtomAt(s, j) ==
    IF j <= 1 THEN None
    ELSE IF isalpha(s[j - 1]) THEN AtomAt(s, j - 1)
    ELSE IF s[j - 1] = ")" THEN PreviousAtomAt(s, MatchingOpen(s, j - 1))
    ELSE PreviousAtomAt(s, j - 1)

\* the positions after position i where an element token starts
TokensAfter(s, i) == {t \in (i + 1)..Len(s) : TokenStart(s, t)}

\* the first of them
FirstTokenAfter(s, i) == CHOOSE t \in TokensAfter(s, i) : \A u \in TokensAfter(s, i) : t <= u

\* neither parenthesis adds an atom or a bond
ParenthesesAddNothing ==
    (Scanning /\ ~AtEnd(scan) /\ CurChar(scan) \in {"(", ")"})
        => scan'.molecule = scan.molecule

(* C19.  In parse_smiles, "(" pushes the current previous atom and ")"     *)
(* restores the previous atom to the value saved by the matching "(": for  *)
(* every accepted string, the first atom after a ")" is bonded to the atom *)
(* that was the previous atom at the matching "(", and neither parenthesis *)
(* adds an atom or a bond.                                                 *)
C19_FirstAtomAfterClose ==
    [][/\ ParenthesesAddNothing
       /\ scan'.status = "returned" =>
             \A i \in DOMAIN scan'.smiles :
                (scan'.smiles[i] = ")" /\ TokensAfter(scan'.smiles, i) # {})
                => get_bond(scan'.molecule,
                            PreviousAtomAt(scan'.smiles, MatchingOpen(scan'.smiles, i)),
                            AtomAt(scan'.smiles, FirstTokenAfter(scan'.smiles, i))) # 0]_vars

(* C19 as amended.  The same, for the first atom after a ")" when no       *)
(* further ")" stands between the two: a later ")" restores the atom saved *)
(* by its own "(".                                                         *)
C19_FirstAtomAfterLastClose ==
    [][/\ ParenthesesAddNothing
       /\ scan'.status = "returned" =>
             \A i \in DOMAIN scan'.smiles :
                (/\ scan'.smiles[i] = ")"
                 /\ TokensAfter(scan'.smiles, i) # {}
                 /\ \A j \in (i + 1)..FirstTokenAfter(scan'.smiles, i) : scan'.smiles[j] # ")")
                => get_bond(scan'.molecule,
                            PreviousAtomAt(scan'.smiles, MatchingOpen(scan'.smiles, i)),
                            AtomAt(scan'.smiles, FirstTokenAfter(scan'.smiles, i))) # 0]_vars

\* "C(C)(C)C" was accepted, atoms 1, 2 and 3 all bonded to atom 0
C19_Witness ==
    /\ scan.status = "returned"
    /\ scan.smiles = <<"C", "(", "C", ")", "(", "C", ")", "C">>
    /\ \A n \in 1..3 : get_bond(scan.molecule, 0, n) # 0

\* the closed ring-label pairs of a string
RingPairs(s) ==
    LET count[k \in 0..10] ==
            IF k = 0 THEN 0 ELSE count[k - 1] + (Occurrences(s, Digits[k]) \div 2)
    IN  count[10]

\* each atom other than atom 0 has a bond, made when it was appended, to an
\* atom of lower index
BondedToEarlier(m) ==
    \A n \in 1..(Len(m.atoms) - 1) :
        \E k \in DOMAIN m.bonds : m.bonds[k].b = n /\ m.bonds[k].a < n

\* a string that opens a branch without closing it is accepted
OpenBranchAccepted ==
    (scan.smiles = <<"C", "(", "C">> /\ phase # "parsing") => scan.status = "returned"

(* C20.  Every graph returned by parse_smiles is connected: each atom      *)
(* other than atom 0 is bonded, at the moment it is appended, to an atom   *)
(* of lower index, so the number of bonds equals (number of atoms - 1)     *)
(* plus the number of closed ring-label pairs, and a string that opens a   *)
(* branch without closing it ("C(C") is still accepted.                    *)
C20_ReturnedGraphConnected ==
    /\ OpenBranchAccepted
    /\ scan.status = "returned"
          => /\ ReachableFrom0(scan.molecule) = 0..(Len(scan.molecule.atoms) - 1)
             /\ BondedToEarlier(scan.molecule)
             /\ Len(scan.molecule.bonds)
                   = (Len(scan.molecule.atoms) - 1) + RingPairs(scan.smiles)

(* C20 as amended.  The same for every returned graph with at least one    *)
(* atom: the graph returned for a string without atoms has no atom and no  *)
(* bond.                                                                   *)
C20_ReturnedGraphConnectedNonEmpty ==
    /\ OpenBranchAccepted
    /\ scan.status = "returned"
          => IF scan.molecule.atoms = <<>> THEN scan.molecule.bonds = <<>>
             ELSE /\ ReachableFrom0(scan.molecule) = 0..(Len(scan.molecule.atoms) - 1)
                  /\ BondedToEarlier(scan.molecule)
                  /\ Len(scan.molecule.bonds)
                        = (Len(scan.molecule.atoms) - 1) + RingPairs(scan.smiles)

\* "C(C" was accepted
C20_Witness ==
    /\ scan.status = "returned"
    /\ scan.smiles = <<"C", "(", "C">>
    /\ Len(scan.molecule.bonds) = 1

\* the bonds at atom u that lead to an atom not yet in order
OpenBonds(m, u, order) ==
    {k \in DOMAIN m.bonds :
        \/ m.bonds[k].a = u /\ m.bonds[k].b \notin Range(order)
        \/ m.bonds[k].b = u /\ m.bonds[k].a \notin Range(order)}

\* the depth-first order of the bond list: from the atom on top of the
\* stack, follow its first bond in the bond list that leads to a new atom,
\* and step back when there is none
RECURSIVE DepthFirst(_, _, _)
DepthFirst(m, stack, order) ==
    IF stack = <<>> THEN order
    ELSE LET u == stack[Len(stack)]
             open == OpenBonds(m, u, order)
         IN  IF open = {} THEN DepthFirst(m, SubSeq(stack, 1, Len(stack) - 1), order)
             ELSE LET k == CHOOSE j \in open : \A h \in open : j <= h
                      v == IF m.bonds[k].a = u THEN m.bonds[k].b ELSE m.bonds[k].a
                  IN  DepthFirst(m, Append(stack, v), Append(order, v))

\* the atoms of m in depth-first order from atom 0
DepthFirstFrom0(m) == IF m.atoms = <<>> THEN <<>> ELSE DepthFirst(m, <<0>>, <<0>>)

\* the atom tokens of a text, one after the other: its letters
Letters(text) == SelectSeq(text, isalpha)

\* to_smiles acts on the current graph
ExportStep == exported = <<>> /\ exported' # <<>>

(* C21.  to_smiles emits exactly one atom token for each atom reachable    *)
(* from atom 0 through bonds, atom 0 first and the rest in depth-first     *)
(* order of the bond list, and emits no token for an atom not reachable    *)
(* from atom 0; for an atom-less graph it returns the empty string.        *)
C21_TokensInDepthFirstOrder ==
    [][ExportStep =>
          \E order \in {DepthFirstFrom0(molecule)} :
             /\ Range(order) = ReachableFrom0(molecule)
             /\ Len(order) = Cardinality(ReachableFrom0(molecule))
             /\ molecule.atoms # <<>> => order[1] = 0
             /\ Letters(exported'[1])
                   = join([j \in DOMAIN order |-> atom_to_smiles(molecule.atoms[order[j] + 1])])
             /\ molecule.atoms = <<>> => exported'[1] = <<>>]_vars

\* a graph of three atoms, one of them not reachable from atom 0, was
\* written with two atom tokens
C21_Witness ==
    /\ ExportedOnly
    /\ Len(molecule.atoms) = 3
    /\ Cardinality(ReachableFrom0(molecule)) = 2
    /\ Len(Letters(exported[1])) = 2

====
